---- MODULE Spec2Model ----
(***************************************************************************)
(* Model of pywa's webhook server (src/pywa/server.py):                    *)
(*   - the update classifier Server._get_handler and the dispatch engine   *)
(*     Server._call_handlers, started on its own thread by                 *)
(*     webhook_update_handler;                                             *)
(*   - the encrypted flow exchange flow_request_handler.                   *)
(***************************************************************************)
EXTENDS Integers, Sequences, FiniteSets, TLC

(***************************************************************************)
(* Bounds of the model.                                                    *)
(***************************************************************************)
\* largest number of handlers registered for one handler type
MaxHandlers == 2

(***************************************************************************)
(* Handler types (pywa.handlers) and the static tables of server.py.       *)
(***************************************************************************)
None == "None"

RawUpdateHandler == "RawUpdateHandler"

MessageHandler == "MessageHandler"

HandlerTypes ==
    { "MessageHandler", "CallbackButtonHandler", "CallbackSelectionHandler",
      "FlowCompletionHandler", "MessageStatusHandler", "ChatOpenedHandler",
      "TemplateStatusHandler" }

\* _MESSAGE_TYPES.get(msg_type, MessageHandler)
MESSAGE_TYPES(msg_type) ==
    CASE msg_type = "button" -> "CallbackButtonHandler"
      [] msg_type = "request_welcome" -> "ChatOpenedHandler"
      [] OTHER -> MessageHandler

\* _INTERACTIVE_TYPES.get(interactive_type)
INTERACTIVE_TYPES(interactive_type) ==
    CASE interactive_type = "button_reply" -> "CallbackButtonHandler"
      [] interactive_type = "list_reply" -> "CallbackSelectionHandler"
      [] interactive_type = "nfm_reply" -> "FlowCompletionHandler"
      [] OTHER -> None

\* Handler._fields_to_subclasses().get(field), for a field other than "messages"
FieldsToSubclasses(field) ==
    CASE field = "message_template_status_update" -> "TemplateStatusHandler"
      [] OTHER -> None

(***************************************************************************)
(* Raw notifications.  A notification is abstracted to the parts of its    *)
(* shape that _get_handler reads:                                          *)
(*   shape       "ok", or what is missing on the path                      *)
(*               update["entry"][0]["changes"][0]["field"|"value"]         *)
(*   field       the change's field name                                   *)
(*   phone       value["metadata"]["phone_number_id"] compared with the    *)
(*               client's phone_id: "own", "other", or "missing" metadata  *)
(*   kind        which of the keys "messages" / "statuses" value holds     *)
(*   msg_type    value["messages"][0]["type"], or "missing"                *)
(*   interactive value["messages"][0]["interactive"]: "absent" (no such    *)
(*               key), "no_type" (a mapping without "type"), "not_mapping" *)
(*               (null, a string, a list), or the sub-type it carries      *)
(***************************************************************************)
Upd(shape, field, phone, kind, msg_type, interactive) ==
    [shape |-> shape, field |-> field, phone |-> phone, kind |-> kind,
     msg_type |-> msg_type, interactive |-> interactive]

NoUpdate == Upd("unset", "", "", "", "", "")

Phones == {"own", "other", "missing"}

InteractiveValues ==
    { "absent", "no_type", "not_mapping", "button_reply", "list_reply",
      "nfm_reply", "address_message" }

MalformedUpdates ==
    { Upd(s, "", "", "", "", "") : s \in {"no_entry", "no_changes", "no_field"} }

OtherFieldUpdates ==
    { Upd("ok", f, "", "", "", "") :
        f \in {"message_template_status_update", "account_update", "security"} }

MessagesUpdates ==
    { Upd("ok", "messages", p, k, "", "") :
        p \in Phones, k \in {"statuses", "neither"} }
    \cup { Upd("ok", "messages", p, "messages", m, "") :
             p \in Phones, m \in {"text", "button", "request_welcome", "missing"} }
    \cup { Upd("ok", "messages", p, "messages", "interactive", i) :
             p \in Phones, i \in InteractiveValues }

Updates == MalformedUpdates \cup OtherFieldUpdates \cup MessagesUpdates

\* the notifications of the requests that run together: one without entry,
\* one of an unknown field, one text message
ConcurrentUpdates ==
    { Upd("no_entry", "", "", "", "", ""),
      Upd("ok", "security", "", "", "", ""),
      Upd("ok", "messages", "own", "messages", "text", "") }

(***************************************************************************)
(* Server._get_handler: the handler type of an update, None, or the error  *)
(* it raises.                                                              *)
(***************************************************************************)
Errors == {"ValueError", "KeyError", "TypeError", "IndexError"}

\* mutant: the KeyError of a missing interactive sub-type is not caught
GetMessagesHandler_SubTypeKeyError(upd) ==
    IF upd.kind = "messages"
    THEN IF upd.msg_type = "missing" THEN "KeyError"
         ELSE IF upd.msg_type = "interactive"
              THEN CASE upd.interactive \in {"absent", "no_type"} -> "KeyError"
                     [] upd.interactive = "not_mapping" -> "TypeError"
                     [] OTHER ->
                          IF INTERACTIVE_TYPES(upd.interactive) # None
                          THEN INTERACTIVE_TYPES(upd.interactive)
                          ELSE MESSAGE_TYPES(upd.msg_type)
              ELSE MESSAGE_TYPES(upd.msg_type)
    ELSE IF upd.kind = "statuses" THEN "MessageStatusHandler"
    ELSE None

\* lines 250-277: the value passed the phone_id filter of line 247
GetMessagesHandler(upd) ==
    IF upd.kind = "messages"
    THEN IF upd.msg_type = "missing" THEN "KeyError"
         ELSE IF upd.msg_type = "interactive"
              THEN CASE upd.interactive \in {"absent", "no_type"} -> MessageHandler
                     [] upd.interactive = "not_mapping" -> "TypeError"
                     [] OTHER ->
                          IF INTERACTIVE_TYPES(upd.interactive) # None
                          THEN INTERACTIVE_TYPES(upd.interactive)
                          ELSE MESSAGE_TYPES(upd.msg_type)
              ELSE MESSAGE_TYPES(upd.msg_type)
    ELSE IF upd.kind = "statuses" THEN "MessageStatusHandler"
    ELSE None

\* mutant: the phone_number_id is compared whether or not filter_updates is set
GetHandler_FilterAlways(upd, filtering) ==
    IF upd.shape # "ok" THEN "ValueError"
    ELSE IF upd.field = "messages"
         THEN IF upd.phone = "missing" THEN "KeyError"
              ELSE IF upd.phone = "own" THEN GetMessagesHandler(upd)
              ELSE None
         ELSE FieldsToSubclasses(upd.field)

\* lines 238-280: the handler type, None, or the error raised
GetHandler(upd, filtering) ==
    IF upd.shape # "ok" THEN "ValueError"
    ELSE IF upd.field = "messages"
         THEN IF ~filtering THEN GetMessagesHandler(upd)
              ELSE IF upd.phone = "missing" THEN "KeyError"
              ELSE IF upd.phone = "own" THEN GetMessagesHandler(upd)
              ELSE None
         ELSE FieldsToSubclasses(upd.field)

(***************************************************************************)
(* State.                                                                  *)
(***************************************************************************)
VARIABLES
    handlers,        \* self._handlers: handler type -> number of registered
                     \* handlers; the k-th registered handler is called k
    filter_updates,  \* self.filter_updates
    pc,              \* per delivery: where its _call_handlers thread is
    update,          \* per delivery: the raw notification
    handler_type,    \* per delivery: local handler_type of _call_handlers
    idx,             \* per delivery: position of the running for loop
    calls,           \* per delivery: the handler.handle calls made so far
    reply            \* per delivery: what webhook_update_handler returned

dispatch_vars ==
    <<handlers, filter_updates, pc, update, handler_type, idx, calls, reply>>

VARIABLES
    acknowledge_errors,  \* option of the endpoint
    handle_health_check, \* option of the endpoint
    flow_pc,             \* per request: where flow_request_handler is
    payload,             \* per request: the payload received
    decrypted_request,   \* per request: local decrypted_request
    aes_key,             \* per request: local aes_key
    iv,                  \* per request: local iv
    response,            \* per request: what the callback did
    flow_calls,          \* per request: calls of the decryptor, the callback
                         \* and the encryptor made so far
    flow_reply           \* per request: the (body, status) returned

flow_vars ==
    <<acknowledge_errors, handle_health_check, flow_pc, payload,
      decrypted_request, aes_key, iv, response, flow_calls, flow_reply>>

VARIABLES
    config,         \* the arguments of Server.__init__, kept by its closures
                    \* and in the attributes of self
    setup,          \* how Server.__init__ ended; "none" before it is called
    routes,         \* the routes registered on the app
    listening,      \* the app is running and answers requests
    registrations,  \* number of threads started on register_callback_url
    reg_pc,         \* where the register_callback_url thread is
    api_calls,      \* the calls of self.api made so far, each with whether
                    \* the app was running when it was made
    challenge,      \* the last call of challenge_handler and what it returned
    flow_endpoint   \* the call of _register_flow_endpoint_callback and how
                    \* it ended

server_vars ==
    <<config, setup, routes, listening, registrations, reg_pc, api_calls,
      challenge, flow_endpoint>>

\* line 33
VERIFY_TIMEOUT_SEC == 6

\* an optional number: <<>> is None, <<n>> is n
NoTimeout == <<>>

Config(server, verify_token, callback_url, app_id, app_secret, verify_timeout, business_private_key, flows_request_decryptor, flows_response_encryptor) ==
    [server |-> server, verify_token |-> verify_token,
     callback_url |-> callback_url, app_id |-> app_id, app_secret |-> app_secret,
     verify_timeout |-> verify_timeout,
     business_private_key |-> business_private_key,
     flows_request_decryptor |-> flows_request_decryptor,
     flows_response_encryptor |-> flows_response_encryptor]

NoConfig == Config("unset", None, None, None, None, NoTimeout, None, None, None)

\* the arguments Server.__init__ is called with
Configs ==
    { Config(s, vt, cb[1], cb[2], cb[3], to, k[1], k[2], k[3]) :
        s \in {None, "Flask", "FastAPI", "Django"},
        vt \in {None, "", "secret"},
        cb \in { <<None, None, None>>, <<"url", "id", "app_secret">>,
                 <<"url", None, "app_secret">>, <<"url", "id", None>> },
        to \in {NoTimeout, <<VERIFY_TIMEOUT_SEC>>, <<VERIFY_TIMEOUT_SEC + 4>>},
        k \in { <<None, None, None>>, <<"key", "custom", "custom">> } }

\* webhook_endpoint
WebhookEndpoint == "/webhook"

Route(path, method) == <<path, method>>

\* the routes of lines 116-124 and 132-145
WebhookRoutes == {Route(WebhookEndpoint, "GET"), Route(WebhookEndpoint, "POST")}

\* the app answers requests on the route
Serving(route) == listening /\ route \in routes

NoChallenge == [vt |-> "unset", ch |-> "unset", reply |-> <<>>]

\* the query parameters hub.verify_token and hub.challenge of a GET request
ReceivedTokens == {None, "secret", "wrong"}

ReceivedChallenges == {None, "abc123"}

FlowEndpoint(endpoint, private_key, request_decryptor, response_encryptor, cryptography_installed, outcome) ==
    [endpoint |-> endpoint, private_key |-> private_key,
     request_decryptor |-> request_decryptor,
     response_encryptor |-> response_encryptor,
     cryptography_installed |-> cryptography_installed, outcome |-> outcome]

NoFlowEndpoint == FlowEndpoint("", None, None, None, FALSE, "none")

\* the state of the server before Server.__init__ is called
ServerNotSetUp ==
    /\ config = NoConfig
    /\ setup = "none"
    /\ routes = {}
    /\ listening = FALSE
    /\ registrations = 0
    /\ reg_pc = "not_started"
    /\ api_calls = <<>>
    /\ challenge = NoChallenge
    /\ flow_endpoint = NoFlowEndpoint

\* a Flask app set up without callback_url, with a flow endpoint registered,
\* and running
ServerServing ==
    /\ config = Config("Flask", "secret", None, None, None, NoTimeout,
                       "key", "custom", "custom")
    /\ setup = "done"
    /\ routes = WebhookRoutes \cup {Route("/flow", "POST")}
    /\ listening = TRUE
    /\ registrations = 0
    /\ reg_pc = "not_started"
    /\ api_calls = <<>>
    /\ challenge = NoChallenge
    /\ flow_endpoint = FlowEndpoint("/flow", None, None, None, TRUE, "registered")

\* the POST requests whose dispatch threads may run together
Deliveries == {1, 2}

\* a single POST request
OneDelivery == {1}

NoReply == <<>>

Results == {"returns", "raises", "StopHandling", "never_returns"}

Call(loop, i, result) == [loop |-> loop, index |-> i, result |-> result]

DispatchInit ==
    /\ \E n \in 0..MaxHandlers, r \in 0..MaxHandlers :
         handlers = [h \in HandlerTypes \cup {RawUpdateHandler} |->
                       IF h = RawUpdateHandler THEN r ELSE n]
    /\ filter_updates \in BOOLEAN
    /\ pc = [t \in Deliveries |-> "idle"]
    /\ update = [t \in Deliveries |-> NoUpdate]
    /\ handler_type = [t \in Deliveries |-> "unset"]
    /\ idx = [t \in Deliveries |-> 0]
    /\ calls = [t \in Deliveries |-> <<>>]
    /\ reply = [t \in Deliveries |-> NoReply]

(***************************************************************************)
(* webhook_update_handler (lines 103-111): start the dispatch thread and   *)
(* acknowledge.                                                            *)
(***************************************************************************)
\* mutant: _call_handlers is run inline and the reply waits for it
WebhookUpdateHandler_WaitsForDispatch(t, upd) ==
    /\ Serving(Route(WebhookEndpoint, "POST"))
    /\ pc[t] = "idle"
    /\ pc' = [pc EXCEPT ![t] = "get_handler"]
    /\ update' = [update EXCEPT ![t] = upd]
    /\ UNCHANGED <<handlers, filter_updates, handler_type, idx, calls, reply>>
    /\ UNCHANGED <<flow_vars, server_vars>>

WebhookUpdateHandler(t, upd) ==
    /\ Serving(Route(WebhookEndpoint, "POST"))
    /\ pc[t] = "idle"
    /\ pc' = [pc EXCEPT ![t] = "get_handler"]
    /\ update' = [update EXCEPT ![t] = upd]
    /\ reply' = [reply EXCEPT ![t] = <<"ok", 200>>]
    /\ UNCHANGED <<handlers, filter_updates, handler_type, idx, calls>>
    /\ UNCHANGED <<flow_vars, server_vars>>

(***************************************************************************)
(* The for loops of _call_handlers.  A loop over an empty list runs no     *)
(* iteration: entering it leads straight to what follows it.               *)
(***************************************************************************)
\* lines 225-234 entered: the raw loop, or the end of _call_handlers
EnterRawLoop == IF handlers[RawUpdateHandler] > 0 THEN "raw_loop" ELSE "done"

\* mutant: the raw loop is entered without running the loop of the type
EnterCategoryLoop_Skipped(htype) == EnterRawLoop

\* lines 212-221 entered: the loop over self._handlers[handler_type]
EnterCategoryLoop(htype) ==
    IF handlers[htype] > 0 THEN "category_loop" ELSE EnterRawLoop

(***************************************************************************)
(* _call_handlers, lines 188-206: classify.  A raised error is recorded in *)
(* handler_type (the code leaves the local unbound and returns).           *)
(***************************************************************************)
\* mutant: an invalid update is logged and the raw handlers still run
AfterGetHandler_InvalidRunsRaw(got) ==
    IF got \in Errors THEN EnterRawLoop
    ELSE IF got = None THEN EnterRawLoop
    ELSE "construct"

\* mutant: an update without handler type ends the dispatch
AfterGetHandler_NoneReturns(got) ==
    IF got \in Errors THEN "done"
    ELSE IF got = None THEN "done"
    ELSE "construct"

\* where the thread goes after _get_handler gave `got`
AfterGetHandler(got) ==
    IF got \in Errors THEN "done"
    ELSE IF got = None THEN EnterRawLoop
    ELSE "construct"

CallGetHandler(t) ==
    /\ pc[t] = "get_handler"
    /\ LET got == GetHandler(update[t], filter_updates) IN
         /\ handler_type' = [handler_type EXCEPT ![t] = got]
         /\ pc' = [pc EXCEPT ![t] = AfterGetHandler(got)]
    /\ idx' = [idx EXCEPT ![t] = 1]
    /\ UNCHANGED <<handlers, filter_updates, update, calls, reply>>
    /\ UNCHANGED <<flow_vars, server_vars>>

(***************************************************************************)
(* _call_handlers, lines 208-211 and 222-223: construct the typed update.  *)
(* The outcome of handler_type._update_constructor is an input.            *)
(***************************************************************************)
\* mutant: a failed construction ends the dispatch
AfterConstruct_FailureReturns(constructed, htype) ==
    IF constructed THEN EnterCategoryLoop(htype) ELSE "done"

\* after _update_constructor returned (constructed) or raised
AfterConstruct(constructed, htype) ==
    IF constructed THEN EnterCategoryLoop(htype) ELSE EnterRawLoop

ConstructUpdate(t) ==
    /\ pc[t] = "construct"
    /\ \E constructed \in BOOLEAN :
         /\ pc' = [pc EXCEPT ![t] = AfterConstruct(constructed, handler_type[t])]
         /\ calls' = [calls EXCEPT ![t] =
                        IF constructed THEN @
                        ELSE Append(@, Call("construct", 0, "raises"))]
    /\ idx' = [idx EXCEPT ![t] = 1]
    /\ UNCHANGED <<handlers, filter_updates, update, handler_type, reply>>
    /\ UNCHANGED <<flow_vars, server_vars>>

(***************************************************************************)
(* _call_handlers, lines 212-221: the loop over the handlers of the type.  *)
(***************************************************************************)
\* mutant: StopHandling is logged like any other error, the loop goes on
AfterCategoryHandle_StopIgnored(i, n, result) ==
    CASE result = "never_returns" -> <<"blocked", i>>
      [] OTHER -> IF i < n THEN <<"category_loop", i + 1>>
                  ELSE <<EnterRawLoop, 1>>

\* mutant: any exception of a handler breaks the loop
AfterCategoryHandle_ErrorBreaks(i, n, result) ==
    CASE result = "never_returns" -> <<"blocked", i>>
      [] result \in {"StopHandling", "raises"} -> <<EnterRawLoop, 1>>
      [] OTHER -> IF i < n THEN <<"category_loop", i + 1>>
                  ELSE <<EnterRawLoop, 1>>

\* <<pc, idx>> after handler i of n in the category loop ended with `result`
AfterCategoryHandle(i, n, result) ==
    CASE result = "never_returns" -> <<"blocked", i>>
      [] result = "StopHandling" -> <<EnterRawLoop, 1>>
      [] OTHER -> IF i < n THEN <<"category_loop", i + 1>>
                  ELSE <<EnterRawLoop, 1>>

CategoryHandle(t) ==
    /\ pc[t] = "category_loop"
    /\ \E result \in Results :
         LET after == AfterCategoryHandle(idx[t], handlers[handler_type[t]], result) IN
           /\ calls' = [calls EXCEPT ![t] = Append(@, Call("category", idx[t], result))]
           /\ pc' = [pc EXCEPT ![t] = after[1]]
           /\ idx' = [idx EXCEPT ![t] = after[2]]
    /\ UNCHANGED <<handlers, filter_updates, update, handler_type, reply>>
    /\ UNCHANGED <<flow_vars, server_vars>>

(***************************************************************************)
(* _call_handlers, lines 225-234: the loop over the raw handlers.          *)
(***************************************************************************)
\* mutant: a StopHandling raised in any dispatch ends every raw loop
AfterRawHandle_SharedStop(i, n, result) ==
    CASE result = "never_returns" -> <<"blocked", i>>
      [] \/ result = "StopHandling"
         \/ \E q \in Deliveries : \E k \in 1..Len(calls[q]) :
               calls[q][k].result = "StopHandling" -> <<"done", i>>
      [] OTHER -> IF i < n THEN <<"raw_loop", i + 1>> ELSE <<"done", i>>

\* <<pc, idx>> after raw handler i of n ended with `result`
AfterRawHandle(i, n, result) ==
    CASE result = "never_returns" -> <<"blocked", i>>
      [] result = "StopHandling" -> <<"done", i>>
      [] OTHER -> IF i < n THEN <<"raw_loop", i + 1>> ELSE <<"done", i>>

RawHandle(t) ==
    /\ pc[t] = "raw_loop"
    /\ \E result \in Results :
         LET after == AfterRawHandle(idx[t], handlers[RawUpdateHandler], result) IN
           /\ calls' = [calls EXCEPT ![t] = Append(@, Call("raw", idx[t], result))]
           /\ pc' = [pc EXCEPT ![t] = after[1]]
           /\ idx' = [idx EXCEPT ![t] = after[2]]
    /\ UNCHANGED <<handlers, filter_updates, update, handler_type, reply>>
    /\ UNCHANGED <<flow_vars, server_vars>>

(***************************************************************************)
(* The encrypted flow exchange: flow_request_handler (lines 334-419) of an *)
(* endpoint registered by _register_flow_endpoint_callback.                *)
(*                                                                         *)
(* A payload is abstracted to                                              *)
(*   has_fields  the three envelope keys are all present                   *)
(*   decryptable request_decryptor returns (rather than raises)            *)
(*   key, iv     the aes_key and iv request_decryptor returns              *)
(*   request     the decrypted request request_decryptor returns:          *)
(*       action     "ping", "data_exchange", or "missing" (no such key)    *)
(*       version    "3.0", or "missing" (no such key)                      *)
(*       parses     FlowRequest.from_dict accepts the rest of it           *)
(*       has_error  FlowRequest.has_error of the parsed request            *)
(***************************************************************************)
Keys == {"key1", "key2"}

IVs == {"iv1", "iv2"}

Req(action, version, parses, has_error) ==
    [action |-> action, version |-> version, parses |-> parses,
     has_error |-> has_error]

NoReq == Req("unset", "", FALSE, FALSE)

DecryptedRequests ==
    { Req(a, v, ok, e) : a \in {"ping", "data_exchange", "missing"},
                         v \in {"3.0", "missing"}, ok \in BOOLEAN, e \in BOOLEAN }

Payload(has_fields, decryptable, key, i, request) ==
    [has_fields |-> has_fields, decryptable |-> decryptable, key |-> key,
     iv |-> i, request |-> request]

NoPayload == Payload(FALSE, FALSE, "", "", NoReq)

Payloads ==
    { Payload(FALSE, TRUE, "key1", "iv1", Req("data_exchange", "3.0", TRUE, FALSE)),
      Payload(TRUE, FALSE, "key1", "iv1", Req("data_exchange", "3.0", TRUE, FALSE)) }
    \cup { Payload(TRUE, TRUE, k, i, q) :
             k \in Keys, i \in IVs, q \in DecryptedRequests }

\* the payloads of the requests that run together
ConcurrentPayloads ==
    { Payload(TRUE, FALSE, "key1", "iv1", Req("data_exchange", "3.0", TRUE, FALSE)) }
    \cup { Payload(TRUE, TRUE, k, i, q) :
             k \in Keys, i \in IVs,
             q \in { Req("ping", "3.0", TRUE, FALSE),
                     Req("data_exchange", "3.0", TRUE, FALSE),
                     Req("data_exchange", "3.0", TRUE, TRUE) } }

(***************************************************************************)
(* What the application callback does with a request: the value it returns *)
(* or the exception it raises.  cls is the class of that value, with       *)
(* error_message and status_code for a FlowResponseError.                  *)
(***************************************************************************)
Behaviour(how, cls, error_message, status_code) ==
    [how |-> how, cls |-> cls, error_message |-> error_message,
     status_code |-> status_code]

NoResponse == Behaviour("unset", "", "", 0)

\* FlowResponseError subclasses other than FlowTokenNoLongerValid, with their
\* status_code
OtherFlowResponseErrors ==
    { <<"FlowRequestSignatureAuthenticationFailed", 432>>,
      <<"FlowRequestCannotBeDecrypted", 421>> }

FlowResponseErrorClasses ==
    {"FlowTokenNoLongerValid"} \cup { e[1] : e \in OtherFlowResponseErrors }

Behaviours ==
    { Behaviour("returns", c, "", 0) : c \in {"FlowResponse", "dict", "None", "str"} }
    \cup { Behaviour(h, "FlowTokenNoLongerValid", m, 427) :
             h \in {"returns", "raises"}, m \in {"expired", "Flow token is no longer valid"} }
    \cup { Behaviour(h, e[1], "", e[2]) :
             h \in {"returns", "raises"}, e \in OtherFlowResponseErrors }
    \cup { Behaviour("raises", "RuntimeError", "", 0) }

\* FlowRequestCannotBeDecrypted.status_code
FlowRequestCannotBeDecrypted_status_code == 421

(***************************************************************************)
(* Bodies of replies.  A body is plaintext, or what response_encryptor     *)
(* returned for (data, aes_key, iv).                                       *)
(***************************************************************************)
Plain(text) == [encrypted |-> FALSE, data |-> <<text>>, key |-> "", iv |-> ""]

\* response_encryptor(data, aes_key, iv)
Encrypted(data, key, i) == [encrypted |-> TRUE, data |-> data, key |-> key, iv |-> i]

\* {"version": version, "data": {"status": "active"}}
HealthData(version) == <<"version", version, "data", "status", "active">>

\* {"version": version, "data": {"acknowledged": True}}
AcknowledgedData(version) == <<"version", version, "data", "acknowledged", "True">>

\* {"error_msg": error_message}
ErrorMsgData(error_message) == <<"error_msg", error_message>>

\* response.to_dict() if isinstance(response, FlowResponse) else response
ResponseData(resp) ==
    IF resp.cls = "FlowResponse" THEN <<"FlowResponse.to_dict()">> ELSE <<"dict">>

\* the calls of the handler that may be in progress together
FlowRequests == {1, 2}

\* a single call of the handler
OneFlowRequest == {1}

FlowCall(fn, key, i) == [fn |-> fn, key |-> key, iv |-> i]

FlowInit ==
    /\ acknowledge_errors \in BOOLEAN
    /\ handle_health_check \in BOOLEAN
    /\ flow_pc = [r \in FlowRequests |-> "idle"]
    /\ payload = [r \in FlowRequests |-> NoPayload]
    /\ decrypted_request = [r \in FlowRequests |-> NoReq]
    /\ aes_key = [r \in FlowRequests |-> ""]
    /\ iv = [r \in FlowRequests |-> ""]
    /\ response = [r \in FlowRequests |-> NoResponse]
    /\ flow_calls = [r \in FlowRequests |-> <<>>]
    /\ flow_reply = [r \in FlowRequests |-> NoReply]

\* mutant: the key and IV are kept in an attribute shared by the requests,
\* which holds those of the request that decrypted last
SessionKey_Shared(r) ==
    LET live == { q \in FlowRequests : aes_key[q] # "" }
        last == CHOOSE q \in live : \A o \in live : o <= q
    IN  <<aes_key[last], iv[last]>>

\* the locals aes_key and iv of this call of the handler (line 337)
SessionKey(r) == <<aes_key[r], iv[r]>>

\* the call of the handler ends: its locals are gone
FlowLocalsDropped(r) ==
    /\ decrypted_request' = [decrypted_request EXCEPT ![r] = NoReq]
    /\ aes_key' = [aes_key EXCEPT ![r] = ""]
    /\ iv' = [iv EXCEPT ![r] = ""]

\* the handler returns (body, status), after calling response_encryptor when
\* the body is one it returned
FlowReturn(r, body, status) ==
    /\ flow_pc' = [flow_pc EXCEPT ![r] = "returned"]
    /\ flow_reply' = [flow_reply EXCEPT ![r] = <<body, status>>]
    /\ FlowLocalsDropped(r)

\* the handler calls response_encryptor(data, aes_key, iv) and returns its
\* result with the status
FlowReturnEncrypted(r, data, status) ==
    /\ FlowReturn(r, Encrypted(data, SessionKey(r)[1], SessionKey(r)[2]), status)
    /\ flow_calls' = [flow_calls EXCEPT ![r] =
          Append(@, FlowCall("response_encryptor", SessionKey(r)[1], SessionKey(r)[2]))]

\* an exception leaves the handler
FlowRaise(r, error) ==
    /\ flow_pc' = [flow_pc EXCEPT ![r] = "raised"]
    /\ flow_reply' = [flow_reply EXCEPT ![r] = <<error>>]
    /\ FlowLocalsDropped(r)

\* the handler goes on to its next step, its locals as they are
FlowGoesOn(r, step) ==
    /\ flow_pc' = [flow_pc EXCEPT ![r] = step]
    /\ UNCHANGED <<flow_reply, decrypted_request, aes_key, iv>>

\* the server calls flow_request_handler(payload)
FlowRequestReceived(r, p) ==
    /\ flow_endpoint.outcome = "registered"
    /\ Serving(Route(flow_endpoint.endpoint, "POST"))
    /\ flow_pc[r] = "idle"
    /\ flow_pc' = [flow_pc EXCEPT ![r] = "decrypt"]
    /\ payload' = [payload EXCEPT ![r] = p]
    /\ UNCHANGED <<acknowledge_errors, handle_health_check, decrypted_request,
                   aes_key, iv, response, flow_calls, flow_reply>>
    /\ UNCHANGED <<dispatch_vars, server_vars>>

(***************************************************************************)
(* Lines 336-350: decrypt.                                                 *)
(***************************************************************************)
\* mutant: only the call of the decryptor is inside the try
DecryptOutcome_KeyErrorEscapes(p) ==
    IF ~p.has_fields THEN "KeyError"
    ELSE IF ~p.decryptable THEN "failed"
    ELSE "decrypted"

\* what the try block of lines 336-343 ends with
DecryptOutcome(p) ==
    IF ~p.has_fields THEN "failed"
    ELSE IF ~p.decryptable THEN "failed"
    ELSE "decrypted"

FlowDecrypt(r) ==
    /\ flow_pc[r] = "decrypt"
    /\ flow_calls' = [flow_calls EXCEPT ![r] =
                        IF payload[r].has_fields
                        THEN Append(@, FlowCall("request_decryptor", "", ""))
                        ELSE @]
    /\ CASE DecryptOutcome(payload[r]) = "decrypted" ->
              /\ flow_pc' = [flow_pc EXCEPT ![r] = "health_check"]
              /\ decrypted_request' = [decrypted_request EXCEPT ![r] = payload[r].request]
              /\ aes_key' = [aes_key EXCEPT ![r] = payload[r].key]
              /\ iv' = [iv EXCEPT ![r] = payload[r].iv]
              /\ UNCHANGED flow_reply
         [] DecryptOutcome(payload[r]) = "failed" ->
              FlowReturn(r, Plain("Decryption failed"),
                         FlowRequestCannotBeDecrypted_status_code)
         [] OTHER ->
              FlowRaise(r, DecryptOutcome(payload[r]))
    /\ UNCHANGED <<acknowledge_errors, handle_health_check, payload, response>>
    /\ UNCHANGED <<dispatch_vars, server_vars>>

(***************************************************************************)
(* Lines 356-364: the health check.                                        *)
(***************************************************************************)
\* mutant: a ping is passed on to the callback
HealthCheck_PingPassedOn(handle, req) ==
    IF ~handle THEN "no"
    ELSE IF req.action = "missing" THEN "KeyError"
    ELSE "no"

\* the condition of line 356 and the mapping of lines 358-361: "ping" when the
\* health check is answered, "no" when it is not, or the error raised
HealthCheck(handle, req) ==
    IF ~handle THEN "no"
    ELSE IF req.action = "missing" THEN "KeyError"
    ELSE IF req.action # "ping" THEN "no"
    ELSE IF req.version = "missing" THEN "KeyError"
    ELSE "ping"

FlowHealthCheck(r) ==
    /\ flow_pc[r] = "health_check"
    /\ CASE HealthCheck(handle_health_check, decrypted_request[r]) = "ping" ->
              FlowReturnEncrypted(r, HealthData(decrypted_request[r].version), 200)
         [] HealthCheck(handle_health_check, decrypted_request[r]) = "no" ->
              /\ FlowGoesOn(r, "parse")
              /\ UNCHANGED flow_calls
         [] OTHER ->
              /\ FlowRaise(r, HealthCheck(handle_health_check, decrypted_request[r]))
              /\ UNCHANGED flow_calls
    /\ UNCHANGED <<acknowledge_errors, handle_health_check, payload, response>>
    /\ UNCHANGED <<dispatch_vars, server_vars>>

(***************************************************************************)
(* Lines 365-376: parse the decrypted request.                             *)
(***************************************************************************)
\* mutant: the request is passed on without being parsed
FromDictReturns_NotParsed(req) == TRUE

\* FlowRequest.from_dict(data=decrypted_request, raw_encrypted=payload) returns
FromDictReturns(req) ==
    req.action # "missing" /\ req.version # "missing" /\ req.parses

FlowParse(r) ==
    /\ flow_pc[r] = "parse"
    /\ IF FromDictReturns(decrypted_request[r])
       THEN FlowGoesOn(r, "callback")
       ELSE FlowReturn(r, Plain("Failed to construct FlowRequest"), 500)
    /\ UNCHANGED <<acknowledge_errors, handle_health_check, payload, response,
                   flow_calls>>
    /\ UNCHANGED <<dispatch_vars, server_vars>>

(***************************************************************************)
(* Lines 377-398: call the callback.                                       *)
(***************************************************************************)
\* mutant: except FlowResponseError comes before except FlowTokenNoLongerValid
CallbackOutcome_ResponseErrorFirst(b) ==
    IF b.cls \in FlowResponseErrorClasses THEN "FlowResponseError"
    ELSE IF b.how = "raises" THEN "Exception"
    ELSE "returned"

\* mutant: a returned FlowResponseError is not raised (no lines 379-380)
CallbackOutcome_ReturnedNotRaised(b) ==
    IF b.how = "returns" THEN "returned"
    ELSE IF b.cls = "FlowTokenNoLongerValid" THEN "FlowTokenNoLongerValid"
    ELSE IF b.cls \in FlowResponseErrorClasses THEN "FlowResponseError"
    ELSE "Exception"

\* which clause of the try statement of lines 377-398 what the callback did
\* ends in: "returned" when none does
CallbackOutcome(b) ==
    IF b.cls = "FlowTokenNoLongerValid" THEN "FlowTokenNoLongerValid"
    ELSE IF b.cls \in FlowResponseErrorClasses THEN "FlowResponseError"
    ELSE IF b.how = "raises" THEN "Exception"
    ELSE "returned"

FlowCallback(r) ==
    /\ flow_pc[r] = "callback"
    /\ \E b \in Behaviours :
         /\ response' = [response EXCEPT ![r] = b]
         /\ CASE CallbackOutcome(b) = "FlowTokenNoLongerValid" ->
                   /\ FlowReturn(r, Encrypted(ErrorMsgData(b.error_message),
                                              SessionKey(r)[1], SessionKey(r)[2]),
                                 b.status_code)
                   /\ flow_calls' = [flow_calls EXCEPT ![r] =
                        @ \o <<FlowCall("callback", "", ""),
                               FlowCall("response_encryptor",
                                        SessionKey(r)[1], SessionKey(r)[2])>>]
              [] CallbackOutcome(b) = "FlowResponseError" ->
                   /\ FlowReturn(r, Plain(b.cls), b.status_code)
                   /\ flow_calls' = [flow_calls EXCEPT ![r] =
                                       Append(@, FlowCall("callback", "", ""))]
              [] CallbackOutcome(b) = "Exception" ->
                   /\ FlowReturn(r, Plain("An error occurred"), 500)
                   /\ flow_calls' = [flow_calls EXCEPT ![r] =
                                       Append(@, FlowCall("callback", "", ""))]
              [] OTHER ->
                   /\ FlowGoesOn(r, "respond")
                   /\ flow_calls' = [flow_calls EXCEPT ![r] =
                                       Append(@, FlowCall("callback", "", ""))]
    /\ UNCHANGED <<acknowledge_errors, handle_health_check, payload>>
    /\ UNCHANGED <<dispatch_vars, server_vars>>

(***************************************************************************)
(* Lines 400-419: answer with what the callback returned.                  *)
(***************************************************************************)
\* mutant: the type of the response is checked before the acknowledgment
Respond_TypeCheckedFirst(ack, req, resp) ==
    IF resp.cls \notin {"FlowResponse", "dict"} THEN "TypeError"
    ELSE IF ack /\ req.has_error THEN "acknowledged"
    ELSE "response"

\* what lines 400-419 do: "acknowledged" (400-410), "TypeError" (411-414) or
\* "response" (415-419)
Respond(ack, req, resp) ==
    IF ack /\ req.has_error THEN "acknowledged"
    ELSE IF resp.cls \notin {"FlowResponse", "dict"} THEN "TypeError"
    ELSE "response"

FlowRespond(r) ==
    /\ flow_pc[r] = "respond"
    /\ CASE Respond(acknowledge_errors, decrypted_request[r], response[r]) = "acknowledged" ->
              FlowReturnEncrypted(r, AcknowledgedData(decrypted_request[r].version), 200)
         [] Respond(acknowledge_errors, decrypted_request[r], response[r]) = "response" ->
              FlowReturnEncrypted(r, ResponseData(response[r]), 200)
         [] OTHER ->
              /\ FlowRaise(r, "TypeError")
              /\ UNCHANGED flow_calls
    /\ UNCHANGED <<acknowledge_errors, handle_health_check, payload, response>>
    /\ UNCHANGED <<dispatch_vars, server_vars>>

(***************************************************************************)
(* Server.__init__ (lines 53-184): the checks, the routes of the webhook   *)
(* endpoint, and the thread that registers the callback URL.               *)
(***************************************************************************)
\* mutant: only a verify token that is None is refused
VerifyTokenMissing_NoneOnly(verify_token) == verify_token = None

\* line 78: not verify_token
VerifyTokenMissing(verify_token) == verify_token \in {None, ""}

\* lines 163-164: where register_callback_url begins
RegisterCallbackUrlBegins(verify_timeout) ==
    IF verify_timeout # NoTimeout /\ verify_timeout[1] > VERIFY_TIMEOUT_SEC
    THEN "sleep"
    ELSE "get_app_access_token"

\* Server.__init__ ends with the given outcome, having registered the given
\* routes and, when thread is set, started the register_callback_url thread
ServerInitEnds(outcome, registered, thread) ==
    /\ setup' = outcome
    /\ routes' = routes \cup registered
    /\ registrations' = IF thread THEN registrations + 1 ELSE registrations
    /\ reg_pc' = IF thread
                 THEN RegisterCallbackUrlBegins(config'.verify_timeout)
                 ELSE reg_pc

ServerInit(cfg) ==
    /\ setup = "none"
    /\ config' = cfg
    /\ CASE cfg.server = None ->                                \* lines 68-70
              ServerInitEnds("done", {}, FALSE)
         [] cfg.server # None /\ VerifyTokenMissing(cfg.verify_token) ->
              ServerInitEnds("ValueError", {}, FALSE)            \* lines 78-82
         [] OTHER ->
              IF cfg.server \notin {"Flask", "FastAPI"}
              THEN ServerInitEnds("ValueError", {}, FALSE)       \* lines 146-147
              ELSE IF cfg.callback_url = None
              THEN ServerInitEnds("done", WebhookRoutes, FALSE)
              ELSE IF cfg.app_id = None \/ cfg.app_secret = None
              THEN ServerInitEnds("ValueError", WebhookRoutes, FALSE) \* 150-155
              ELSE ServerInitEnds("done", WebhookRoutes, TRUE)   \* line 184
    /\ UNCHANGED <<listening, api_calls, challenge, flow_endpoint>>
    /\ UNCHANGED <<dispatch_vars, flow_vars>>

\* the application runs the app it gave to the client (samples/translator.py,
\* line 98, after the client is constructed at lines 10-18)
AppRun ==
    /\ setup = "done"
    /\ config.server \in {"Flask", "FastAPI"}
    /\ ~listening
    /\ listening' = TRUE
    /\ UNCHANGED <<config, setup, routes, registrations, reg_pc, api_calls,
                   challenge, flow_endpoint>>
    /\ UNCHANGED <<dispatch_vars, flow_vars>>

(***************************************************************************)
(* challenge_handler (lines 87-101) behind the GET route.                  *)
(***************************************************************************)
\* mutant: a request without token passes the challenge
ChallengeHandler_AbsentTokenPasses(vt, ch) ==
    IF vt = config.verify_token \/ vt = None
    THEN <<ch, 200>>
    ELSE <<"Error, invalid verification token", 403>>

ChallengeHandler(vt, ch) ==
    IF vt = config.verify_token
    THEN <<ch, 200>>
    ELSE <<"Error, invalid verification token", 403>>

\* flask_challenge (lines 116-121) passes None for a parameter the request
\* lacks; fastapi_challenge (lines 132-138) declares both parameters required
\* and is not called without them
ChallengeRequest(vt, ch) ==
    /\ Serving(Route(WebhookEndpoint, "GET"))
    /\ config.server = "FastAPI" => (vt # None /\ ch # None)
    /\ challenge' = [vt |-> vt, ch |-> ch, reply |-> ChallengeHandler(vt, ch)]
    /\ UNCHANGED <<config, setup, routes, listening, registrations, reg_pc,
                   api_calls, flow_endpoint>>
    /\ UNCHANGED <<dispatch_vars, flow_vars>>

(***************************************************************************)
(* register_callback_url (lines 159-182), on its own thread.               *)
(***************************************************************************)
\* a call of self.api: what was called, how it ended, and whether the app was
\* running when it was made
ApiCall(fn, outcome) == [fn |-> fn, outcome |-> outcome, listening |-> listening]

\* line 164: time.sleep(verify_timeout - _VERIFY_TIMEOUT_SEC) returns
RegisterCallbackUrl_Sleep ==
    /\ reg_pc = "sleep"
    /\ reg_pc' = "get_app_access_token"
    /\ UNCHANGED <<config, setup, routes, listening, registrations, api_calls,
                   challenge, flow_endpoint>>
    /\ UNCHANGED <<dispatch_vars, flow_vars>>

\* mutant: an error of get_app_access_token is swallowed
AfterGetAppAccessToken_ErrorIgnored(outcome) == "set_app_callback_url"

\* lines 166-168 and 179-182: WhatsAppError becomes RuntimeError, any other
\* exception leaves the thread as it is
AfterGetAppAccessToken(outcome) ==
    CASE outcome = "returns" -> "set_app_callback_url"
      [] outcome = "WhatsAppError" -> "RuntimeError"
      [] OTHER -> outcome

RegisterCallbackUrl_GetAppAccessToken(outcome) ==
    /\ reg_pc = "get_app_access_token"
    /\ api_calls' = Append(api_calls, ApiCall("get_app_access_token", outcome))
    /\ reg_pc' = AfterGetAppAccessToken(outcome)
    /\ UNCHANGED <<config, setup, routes, listening, registrations, challenge,
                   flow_endpoint>>
    /\ UNCHANGED <<dispatch_vars, flow_vars>>

\* lines 170-182: a result without success raises RuntimeError
AfterSetAppCallbackUrl(outcome) ==
    CASE outcome = "success" -> "registered"
      [] outcome \in {"not_success", "WhatsAppError"} -> "RuntimeError"
      [] OTHER -> outcome

RegisterCallbackUrl_SetAppCallbackUrl(outcome) ==
    /\ reg_pc = "set_app_callback_url"
    /\ api_calls' = Append(api_calls, ApiCall("set_app_callback_url", outcome))
    /\ reg_pc' = AfterSetAppCallbackUrl(outcome)
    /\ UNCHANGED <<config, setup, routes, listening, registrations, challenge,
                   flow_endpoint>>
    /\ UNCHANGED <<dispatch_vars, flow_vars>>

(***************************************************************************)
(* _register_flow_endpoint_callback (lines 282-333 and 421-439).           *)
(***************************************************************************)
\* x or y
Or(x, y) == IF x \notin {None, ""} THEN x ELSE y

\* lines 296-332: the checks, in their order
FlowEndpointOutcome(endpoint, private_key, request_decryptor, response_encryptor, cryptography_installed) ==
    LET decryptor == Or(request_decryptor, config.flows_request_decryptor)
        encryptor == Or(response_encryptor, config.flows_response_encryptor)
    IN  CASE config.server = None -> "ValueError"
          [] Or(private_key, config.business_private_key) = None -> "ValueError"
          [] decryptor = None -> "ValueError"
          [] encryptor = None -> "ValueError"
          [] ("default" \in {decryptor, encryptor}) /\ ~cryptography_installed ->
                "ValueError"
          [] endpoint = WebhookEndpoint -> "ValueError"
          [] OTHER -> "registered"

RegisterFlowEndpointCallback(endpoint, private_key, request_decryptor, response_encryptor, cryptography_installed) ==
    LET outcome == FlowEndpointOutcome(endpoint, private_key, request_decryptor,
                                       response_encryptor, cryptography_installed)
    IN  /\ setup = "done"
        /\ flow_endpoint = NoFlowEndpoint
        /\ flow_endpoint' = FlowEndpoint(endpoint, private_key, request_decryptor,
                                         response_encryptor,
                                         cryptography_installed, outcome)
        /\ routes' = IF outcome = "registered"
                     THEN routes \cup {Route(endpoint, "POST")}
                     ELSE routes
        /\ UNCHANGED <<config, setup, listening, registrations, reg_pc,
                       api_calls, challenge>>
        /\ UNCHANGED <<dispatch_vars, flow_vars>>

(***************************************************************************)
(* Specifications.  Spec: deliveries to the webhook endpoint; the flow     *)
(* endpoint receives nothing.  SpecFlow: requests to the flow endpoint;    *)
(* the webhook endpoint receives nothing.                                  *)
(***************************************************************************)
vars == <<dispatch_vars, flow_vars, server_vars>>

\* no flow request arrives; the options of the endpoint are the defaults
FlowQuiet == FlowInit /\ acknowledge_errors /\ handle_health_check

\* no notification arrives; no handler is registered
DispatchQuiet ==
    /\ DispatchInit
    /\ \A h \in DOMAIN handlers : handlers[h] = 0
    /\ ~filter_updates

Next ==
    \E t \in OneDelivery :
        \/ \E upd \in Updates : WebhookUpdateHandler(t, upd)
        \/ CallGetHandler(t)
        \/ ConstructUpdate(t)
        \/ CategoryHandle(t)
        \/ RawHandle(t)

Init == DispatchInit /\ FlowQuiet /\ ServerServing

Spec == Init /\ [][Next]_vars

\* two notifications arrive in separate POST requests, each dispatched on its
\* own thread; two handlers of every type and two raw handlers are registered
NextConcurrent ==
    \E t \in Deliveries :
        \/ \E upd \in ConcurrentUpdates : WebhookUpdateHandler(t, upd)
        \/ CallGetHandler(t)
        \/ ConstructUpdate(t)
        \/ CategoryHandle(t)
        \/ RawHandle(t)

InitConcurrent ==
    /\ DispatchInit
    /\ \A h \in DOMAIN handlers : handlers[h] = 2
    /\ ~filter_updates
    /\ FlowQuiet
    /\ ServerServing

SpecConcurrent == InitConcurrent /\ [][NextConcurrent]_vars

NextFlow ==
    \E r \in OneFlowRequest :
        \/ \E p \in Payloads : FlowRequestReceived(r, p)
        \/ FlowDecrypt(r)
        \/ FlowHealthCheck(r)
        \/ FlowParse(r)
        \/ FlowCallback(r)
        \/ FlowRespond(r)

InitFlow == DispatchQuiet /\ FlowInit /\ ServerServing

SpecFlow == InitFlow /\ [][NextFlow]_vars

\* two calls of the handler run together, each on its own thread of the server
NextFlowConcurrent ==
    \E r \in FlowRequests :
        \/ \E p \in ConcurrentPayloads : FlowRequestReceived(r, p)
        \/ FlowDecrypt(r)
        \/ FlowHealthCheck(r)
        \/ FlowParse(r)
        \/ FlowCallback(r)
        \/ FlowRespond(r)

InitFlowConcurrent == DispatchQuiet /\ FlowInit /\ ServerServing

SpecFlowConcurrent == InitFlowConcurrent /\ [][NextFlowConcurrent]_vars

\* the outcomes of a call of self.api
ApiOutcomes == {"returns", "WhatsAppError", "Exception"}

\* the server is set up and run, the registration thread runs, and GET
\* requests arrive at the webhook endpoint
NextServer ==
    \/ \E cfg \in Configs : ServerInit(cfg)
    \/ AppRun
    \/ \E vt \in ReceivedTokens, ch \in ReceivedChallenges : ChallengeRequest(vt, ch)
    \/ RegisterCallbackUrl_Sleep
    \/ \E outcome \in ApiOutcomes : RegisterCallbackUrl_GetAppAccessToken(outcome)
    \/ \E outcome \in {"success", "not_success", "WhatsAppError", "Exception"} :
          RegisterCallbackUrl_SetAppCallbackUrl(outcome)
    \/ \E endpoint \in {WebhookEndpoint, "/flow"}, private_key \in {None, "key"},
          request_decryptor \in {None, "custom", "default"},
          response_encryptor \in {None, "custom"},
          cryptography_installed \in BOOLEAN :
          RegisterFlowEndpointCallback(endpoint, private_key, request_decryptor,
                                       response_encryptor, cryptography_installed)

InitServer == DispatchQuiet /\ FlowQuiet /\ ServerNotSetUp

SpecServer == InitServer /\ [][NextServer]_vars

(***************************************************************************)
(* Properties of the dispatch.                                             *)
(***************************************************************************)
\* the calls a delivery made in one loop, in the order they were made
LoopCalls(t, loop) == SelectSeq(calls[t], LAMBDA c : c.loop = loop)

\* the calls are those of handlers 1, 2, ..., in this order
InRegistrationOrder(s) == \A k \in 1..Len(s) : s[k].index = k

\* no call of s but the last one raised StopHandling
StopsOnlyLast(s) == \A k \in 1..Len(s) : s[k].result = "StopHandling" => k = Len(s)

Stopped(s) == \E k \in 1..Len(s) : s[k].result = "StopHandling"

\* a finished loop over n handlers that called all of them
RanAll(s, n) == Len(s) = n /\ InRegistrationOrder(s)

\* a finished loop over n handlers: all were called, or the last one called
\* raised StopHandling
RanToFirstStop(s, n) ==
    /\ InRegistrationOrder(s)
    /\ StopsOnlyLast(s)
    /\ Len(s) = n \/ (Len(s) < n /\ Stopped(s))

ConstructionFailed(t) == LoopCalls(t, "construct") # <<>>

\* the delivery was classified to a handler type and its update constructed
Dispatched(t) ==
    /\ pc[t] \in {"category_loop", "raw_loop", "done", "blocked"}
    /\ handler_type[t] \in HandlerTypes
    /\ ~ConstructionFailed(t)

\* C1, as claimed: in a finished dispatch of a notification classified to C
\* the handlers of C were called one after another in registration order, a
\* handler raising StopHandling is the last one of C called, without it all of
\* C are called, and after a StopHandling in C every raw handler is called.
C1_AsClaimed ==
    \A t \in Deliveries :
        (pc[t] = "done" /\ Dispatched(t)) =>
            LET cat == LoopCalls(t, "category") IN
              /\ RanToFirstStop(cat, handlers[handler_type[t]])
              /\ Stopped(cat) => RanAll(LoopCalls(t, "raw"), handlers[RawUpdateHandler])

\* C1, amended: the handlers of C are called one after another in
\* registration order; a finished dispatch called all of them, or all up to
\* the first that raised StopHandling; and after a StopHandling in C the raw
\* loop runs from its first handler, up to its own first StopHandling.
C1_Theorem ==
    \A t \in Deliveries :
        LET cat == LoopCalls(t, "category")
            raw == LoopCalls(t, "raw")
        IN  /\ InRegistrationOrder(cat) /\ StopsOnlyLast(cat)
            /\ (raw # <<>> /\ cat # <<>>) =>
                  \/ Len(cat) = handlers[handler_type[t]]
                  \/ Stopped(cat)
            /\ (pc[t] = "done" /\ Dispatched(t)) =>
                  /\ RanToFirstStop(cat, handlers[handler_type[t]])
                  /\ Stopped(cat) =>
                        RanToFirstStop(raw, handlers[RawUpdateHandler])

\* C1, witness: the first of two handlers of C raised StopHandling, the second
\* was not called, and the raw loop ran and was stopped by its first handler.
C1_Witness ==
    \E t \in Deliveries :
        /\ pc[t] = "done" /\ Dispatched(t)
        /\ handlers[handler_type[t]] = 2 /\ handlers[RawUpdateHandler] = 2
        /\ LoopCalls(t, "category") = <<Call("category", 1, "StopHandling")>>
        /\ LoopCalls(t, "raw") = <<Call("raw", 1, "StopHandling")>>

\* C2: a handler that raised an error other than StopHandling is followed by a
\* call of the next handler of its loop (if there is one), in the category
\* loop and in the raw loop; and after an error in a category handler every
\* raw handler is called unless an earlier raw handler raised StopHandling.
C2_Theorem ==
    \A t \in Deliveries :
        pc[t] = "done" =>
            LET cat == LoopCalls(t, "category")
                raw == LoopCalls(t, "raw")
            IN  /\ \A k \in 1..Len(cat) :
                      (cat[k].result = "raises" /\ k < handlers[handler_type[t]]) =>
                          (Len(cat) > k /\ cat[k + 1].index = k + 1)
                /\ \A k \in 1..Len(raw) :
                      (raw[k].result = "raises" /\ k < handlers[RawUpdateHandler]) =>
                          (Len(raw) > k /\ raw[k + 1].index = k + 1)
                /\ (\E k \in 1..Len(cat) : cat[k].result = "raises") =>
                      \A j \in 1..handlers[RawUpdateHandler] :
                          \/ \E k \in 1..Len(raw) : raw[k].index = j
                          \/ \E k \in 1..Len(raw) :
                                raw[k].index < j /\ raw[k].result = "StopHandling"

\* C2, witness: the first category handler and the first raw handler raised,
\* and the second of each loop was called all the same.
C2_Witness ==
    \E t \in Deliveries :
        /\ pc[t] = "done"
        /\ LoopCalls(t, "category") =
              <<Call("category", 1, "raises"), Call("category", 2, "returns")>>
        /\ LoopCalls(t, "raw") = <<Call("raw", 1, "raises"), Call("raw", 2, "returns")>>

\* the notification has no entries or no changes
NoEntryOrChange(t) == update[t].shape \in {"no_entry", "no_changes"}

Classified(t) == pc[t] \notin {"idle", "get_handler"}

\* C3, as claimed: for a notification with no entries or no changes the
\* classification fails, no category handler is called, and the finished
\* dispatch called every raw handler.
C3_AsClaimed ==
    \A t \in Deliveries :
        (Classified(t) /\ NoEntryOrChange(t)) =>
            /\ handler_type[t] = "ValueError"
            /\ LoopCalls(t, "category") = <<>>
            /\ pc[t] = "done" => RanAll(LoopCalls(t, "raw"), handlers[RawUpdateHandler])

\* C3, amended: for a notification with no entries or no changes the
\* classification fails (ValueError) and the dispatch ends there: it calls no
\* handler at all, neither a category handler nor a raw handler.
C3_Theorem ==
    \A t \in Deliveries :
        (Classified(t) /\ NoEntryOrChange(t)) =>
            /\ handler_type[t] = "ValueError"
            /\ pc[t] = "done"
            /\ calls[t] = <<>>

\* C3, witness: a notification without changes was dispatched while raw
\* handlers are registered.
C3_Witness ==
    \E t \in Deliveries :
        /\ pc[t] = "done" /\ update[t].shape = "no_changes"
        /\ handlers[RawUpdateHandler] = 2

\* C4, as claimed: when the construction of the typed update fails, no handler
\* of the type is called and the finished dispatch called every raw handler.
C4_AsClaimed ==
    \A t \in Deliveries :
        ConstructionFailed(t) =>
            /\ LoopCalls(t, "category") = <<>>
            /\ pc[t] = "done" => RanAll(LoopCalls(t, "raw"), handlers[RawUpdateHandler])

\* C4, amended: when the construction of the typed update fails, no handler of
\* the type is called, and the raw loop runs: a finished dispatch called every
\* raw handler up to and including the first that raised StopHandling.
C4_Theorem ==
    \A t \in Deliveries :
        ConstructionFailed(t) =>
            /\ handler_type[t] \in HandlerTypes
            /\ LoopCalls(t, "category") = <<>>
            /\ pc[t] # "construct"
            /\ pc[t] = "done" =>
                  RanToFirstStop(LoopCalls(t, "raw"), handlers[RawUpdateHandler])

\* C4, witness: construction failed with handlers of the type registered, and
\* the raw loop ran to its second handler.
C4_Witness ==
    \E t \in Deliveries :
        /\ pc[t] = "done" /\ ConstructionFailed(t)
        /\ handlers[handler_type[t]] = 2
        /\ Len(LoopCalls(t, "raw")) = 2

\* C5: every POST to the webhook is answered ("ok", 200) as soon as its
\* dispatch thread is started, whatever the payload and wherever the dispatch
\* is or ends (invalid update, failed construction, a handler that raised,
\* stopped, or never returns).
C5_Theorem ==
    \A t \in Deliveries : pc[t] # "idle" => reply[t] = <<"ok", 200>>

\* C5, witness: the reply is there and a handler of the dispatch never
\* returns.
C5_Witness ==
    \E t \in Deliveries :
        /\ reply[t] = <<"ok", 200>>
        /\ pc[t] = "blocked"

\* the field is neither "messages" nor a key of the field table
UnknownField(t) ==
    /\ update[t].shape = "ok"
    /\ update[t].field \notin {"messages", "message_template_status_update"}

\* C6, as claimed: a well-formed notification of an unknown field is
\* classified None without error, no category handler is called, and the
\* finished dispatch called every raw handler.
C6_AsClaimed ==
    \A t \in Deliveries :
        (Classified(t) /\ UnknownField(t)) =>
            /\ handler_type[t] = None
            /\ LoopCalls(t, "category") = <<>>
            /\ pc[t] = "done" => RanAll(LoopCalls(t, "raw"), handlers[RawUpdateHandler])

\* C6, amended: a well-formed notification of an unknown field is classified
\* None without error, no construction and no category handler is run, and
\* the raw loop runs: a finished dispatch called every raw handler up to and
\* including the first that raised StopHandling.
C6_Theorem ==
    \A t \in Deliveries :
        (Classified(t) /\ UnknownField(t)) =>
            /\ handler_type[t] = None
            /\ LoopCalls(t, "category") = <<>>
            /\ LoopCalls(t, "construct") = <<>>
            /\ pc[t] \in {"raw_loop", "blocked", "done"}
            /\ pc[t] = "done" =>
                  RanToFirstStop(LoopCalls(t, "raw"), handlers[RawUpdateHandler])

\* C6, witness: a notification of field "security" went to both raw handlers.
C6_Witness ==
    \E t \in Deliveries :
        /\ pc[t] = "done" /\ update[t].field = "security"
        /\ Len(LoopCalls(t, "raw")) = 2

\* a messages-field notification whose first message has type interactive and
\* whose interactive member is missing or a mapping
InteractiveMessage(t) ==
    /\ update[t].shape = "ok" /\ update[t].field = "messages"
    /\ update[t].kind = "messages" /\ update[t].msg_type = "interactive"
    /\ update[t].interactive # "not_mapping"

\* what the claim says an interactive message is classified to
InteractiveCategory(upd) ==
    CASE upd.interactive = "button_reply" -> "CallbackButtonHandler"
      [] upd.interactive = "list_reply" -> "CallbackSelectionHandler"
      [] upd.interactive = "nfm_reply" -> "FlowCompletionHandler"
      [] OTHER -> "MessageHandler"

\* C7, as claimed: every messages-field notification whose first message is
\* interactive is classified by its sub-type, and to the generic message type
\* when the sub-type is unknown or missing; never an error, never None.
C7_AsClaimed ==
    \A t \in Deliveries :
        (Classified(t) /\ InteractiveMessage(t)) =>
            handler_type[t] = InteractiveCategory(update[t])

\* the notification passes the phone_id filter of line 247
PassesFilter(t) == ~filter_updates \/ update[t].phone = "own"

\* C7, amended: every messages-field notification that passes the
\* own-notifications filter (filter_updates off, or its phone_number_id is the
\* client's) and whose first message is interactive, its interactive member a
\* mapping or missing, is classified by its sub-type, and to the generic
\* message type when the sub-type is unknown or missing.
C7_Theorem ==
    \A t \in Deliveries :
        (Classified(t) /\ InteractiveMessage(t) /\ PassesFilter(t)) =>
            handler_type[t] = InteractiveCategory(update[t])

\* C7, witness: an interactive message without sub-type key was classified
\* while the filter is on.
C7_Witness ==
    \E t \in Deliveries :
        /\ Classified(t) /\ InteractiveMessage(t) /\ filter_updates
        /\ update[t].interactive = "no_type"
        /\ handler_type[t] = "MessageHandler"

\* a messages-field notification that carries a phone_number_id other than
\* the client's
ForAnotherPhone(t) ==
    /\ update[t].shape = "ok" /\ update[t].field = "messages"
    /\ update[t].phone = "other"

\* C19, as claimed: with filter_updates on, a messages-field notification for
\* another phone is classified None, no category handler is called and the
\* finished dispatch called every raw handler; with filter_updates off the
\* classification is the same whatever the phone_number_id.
C19_AsClaimed ==
    \A t \in Deliveries :
        /\ (Classified(t) /\ filter_updates /\ ForAnotherPhone(t)) =>
              /\ handler_type[t] = None
              /\ LoopCalls(t, "category") = <<>>
              /\ pc[t] = "done" => RanAll(LoopCalls(t, "raw"), handlers[RawUpdateHandler])
        /\ (Classified(t) /\ ~filter_updates) =>
              \A p \in Phones :
                  handler_type[t] = GetHandler([update[t] EXCEPT !.phone = p], FALSE)

\* C19, amended: with filter_updates on, a messages-field notification for
\* another phone is classified None without error, no category handler is
\* called and no update constructed, and the finished dispatch called the raw
\* handlers in registration order up to and including the first one that
\* raised StopHandling, all of them when none did; with filter_updates off
\* the classification is the same whatever the phone_number_id, a missing
\* one included.
C19_Theorem ==
    \A t \in Deliveries :
        /\ (Classified(t) /\ filter_updates /\ ForAnotherPhone(t)) =>
              /\ handler_type[t] = None
              /\ LoopCalls(t, "category") = <<>>
              /\ LoopCalls(t, "construct") = <<>>
              /\ pc[t] \in {"raw_loop", "blocked", "done"}
              /\ pc[t] = "done" =>
                    RanToFirstStop(LoopCalls(t, "raw"), handlers[RawUpdateHandler])
        /\ (Classified(t) /\ ~filter_updates) =>
              \A p \in Phones :
                  handler_type[t] = GetHandler([update[t] EXCEPT !.phone = p], FALSE)

\* C19, witness: with the filter on and a message handler registered, a text
\* message for another phone went to both raw handlers and to no other.
C19_Witness ==
    \E t \in Deliveries :
        /\ filter_updates /\ ForAnotherPhone(t) /\ pc[t] = "done"
        /\ update[t].kind = "messages" /\ update[t].msg_type = "text"
        /\ handlers[MessageHandler] > 0
        /\ Len(calls[t]) = 2 /\ Len(LoopCalls(t, "raw")) = 2

(***************************************************************************)
(* Properties of the encrypted flow exchange.                              *)
(***************************************************************************)
\* the functions among the decryptor, the callback and the encryptor that a
\* request has called
FlowCalled(r) == { flow_calls[r][k].fn : k \in 1..Len(flow_calls[r]) }

\* the handler has ended, with a reply or with an exception
FlowEnded(r) == flow_pc[r] \in {"returned", "raised"}

\* the decrypt step of the request fails: an envelope field is missing from
\* the payload, or the decryptor raises
DecryptStepFails(r) == ~payload[r].has_fields \/ ~payload[r].decryptable

\* the decrypt step of the request has succeeded
Decrypted(r) ==
    /\ flow_pc[r] \notin {"idle", "decrypt"}
    /\ ~DecryptStepFails(r)

\* C8: when the decrypt step fails (the decryptor raises, or an envelope field
\* is missing from the payload) the handler returns the plaintext
\* "Decryption failed" with status 421 and has called neither the callback nor
\* the response encryptor.
C8_Theorem ==
    \A r \in FlowRequests :
        (flow_pc[r] \notin {"idle", "decrypt"} /\ DecryptStepFails(r)) =>
            /\ flow_pc[r] = "returned"
            /\ flow_reply[r] = <<Plain("Decryption failed"), 421>>
            /\ FlowCalled(r) \subseteq {"request_decryptor"}

\* C8, witness: a payload without envelope field was answered.
C8_Witness ==
    \E r \in FlowRequests :
        /\ flow_pc[r] = "returned"
        /\ ~payload[r].has_fields

\* the request decrypted to a health check that carries a version
Ping(r) ==
    /\ Decrypted(r)
    /\ payload[r].request.action = "ping"
    /\ payload[r].request.version # "missing"

\* the reply to a health check
PingAnswered(r) ==
    /\ flow_pc[r] = "returned"
    /\ flow_reply[r] =
          <<Encrypted(<<"version", payload[r].request.version, "data", "status", "active">>,
                      payload[r].key, payload[r].iv), 200>>
    /\ "callback" \notin FlowCalled(r)

\* C9, as claimed: every request that decrypts to action "ping" is answered
\* with the encrypted {version, data: {status: "active"}} and 200 without a
\* call of the callback, whatever the options of the endpoint are.
C9_AsClaimed ==
    \A r \in FlowRequests :
        (Ping(r) /\ flow_pc[r] # "health_check") => PingAnswered(r)

\* C9, amended: on an endpoint whose handle_health_check option is on, every
\* request that decrypts to action "ping" and carries a version is answered
\* with the encrypted {version, data: {status: "active"}} and 200 without a
\* call of the callback.
C9_Theorem ==
    \A r \in FlowRequests :
        (handle_health_check /\ Ping(r) /\ flow_pc[r] # "health_check") =>
            PingAnswered(r)

\* C9, witness: a ping was answered on an endpoint that handles health checks.
C9_Witness ==
    \E r \in FlowRequests :
        /\ handle_health_check /\ Ping(r)
        /\ flow_pc[r] = "returned"
        /\ "response_encryptor" \in FlowCalled(r)

\* the callback was called with a request that reports an error, on an
\* endpoint that acknowledges errors, and it returned a value
ErrorReported(r) ==
    /\ acknowledge_errors
    /\ Decrypted(r)
    /\ payload[r].request.has_error
    /\ response[r].how = "returns"

\* the reply that acknowledges an error
Acknowledged(r) ==
    /\ flow_pc[r] = "returned"
    /\ flow_reply[r] =
          <<Encrypted(<<"version", payload[r].request.version, "data", "acknowledged", "True">>,
                      payload[r].key, payload[r].iv), 200>>

\* C10, as claimed: with acknowledge_errors on and a request that reports an
\* error, the reply is the encrypted {version, data: {acknowledged: true}}
\* with 200 whatever the callback returned: a response, None, a value of
\* another type, or a response-error object.
C10_AsClaimed ==
    \A r \in FlowRequests :
        (ErrorReported(r) /\ FlowEnded(r)) => Acknowledged(r)

\* C10, amended: with acknowledge_errors on and a request that reports an
\* error, the reply is the encrypted {version, data: {acknowledged: true}}
\* with 200 whatever the callback returned (a response, None, a value of
\* another type), unless it returned a response-error object: that one is
\* raised and answered as the error it is.
C10_Theorem ==
    \A r \in FlowRequests :
        /\ (ErrorReported(r) /\ flow_pc[r] # "respond"
              /\ response[r].cls \notin FlowResponseErrorClasses) => Acknowledged(r)
        /\ (ErrorReported(r) /\ response[r].cls \in FlowResponseErrorClasses) =>
              /\ flow_pc[r] = "returned"
              /\ flow_reply[r][2] = response[r].status_code
              /\ flow_reply[r][1].data \in
                    {<<response[r].cls>>, <<"error_msg", response[r].error_message>>}

\* C10, witness: the callback returned None and the error was acknowledged.
C10_Witness ==
    \E r \in FlowRequests :
        /\ ErrorReported(r) /\ Acknowledged(r)
        /\ response[r].cls = "None"

\* the callback raised or returned an object of the class
CallbackGave(r, classes) ==
    /\ Decrypted(r)
    /\ response[r].how \in {"raises", "returns"}
    /\ response[r].cls \in classes

\* C11: when the callback raises, or returns, FlowTokenNoLongerValid with
\* message m and status s, the reply is the encryption of {"error_msg": m}
\* under the key and IV of the request, with status s.
C11_Theorem ==
    \A r \in FlowRequests :
        CallbackGave(r, {"FlowTokenNoLongerValid"}) =>
            /\ flow_pc[r] = "returned"
            /\ flow_reply[r] =
                  <<Encrypted(<<"error_msg", response[r].error_message>>,
                              payload[r].key, payload[r].iv),
                    response[r].status_code>>

\* C11, witness: the callback returned (did not raise) a FlowTokenNoLongerValid
\* with message "expired" and status 427, and the reply is out.
C11_Witness ==
    \E r \in FlowRequests :
        /\ CallbackGave(r, {"FlowTokenNoLongerValid"})
        /\ response[r].how = "returns"
        /\ response[r].error_message = "expired"
        /\ flow_reply[r][2] = 427

\* the request decrypted, is not answered as a health check, and
\* FlowRequest.from_dict does not accept it
Unparsable(r) ==
    /\ Decrypted(r)
    /\ flow_pc[r] \notin {"health_check", "parse"}
    /\ ~handle_health_check \/ payload[r].request.action = "data_exchange"
    /\ \/ ~payload[r].request.parses
       \/ payload[r].request.action = "missing"
       \/ payload[r].request.version = "missing"

C13_AsClaimed ==
    \A r \in FlowRequests :
        /\ flow_pc[r] # "raised"
        /\ flow_pc[r] = "returned" <=> Len(flow_reply[r]) = 2

\* the callback returned a value that is neither a FlowResponse, a dict nor a
\* FlowResponseError, and no error is to be acknowledged
BadResponseType(r) ==
    /\ response[r].how = "returns"
    /\ response[r].cls \in {"None", "str"}
    /\ ~(acknowledge_errors /\ payload[r].request.has_error)

\* the health check reads a key that the decrypted request does not have
HealthCheckKeyMissing(r) ==
    /\ handle_health_check
    /\ \/ payload[r].request.action = "missing"
       \/ payload[r].request.action = "ping" /\ payload[r].request.version = "missing"

\* C13, amended: every run of the handler in which the callback, if called,
\* returns or raises ends either by returning one (body, status) pair or by
\* an exception leaving the handler, and the latter in two cases only: a
\* TypeError when the callback returned a value of a non-accepted type and no
\* error is acknowledged (lines 411-414), a KeyError when health checks are
\* handled and the decrypted request has no "action", or is a ping without
\* "version" (lines 356-359).
C13_Theorem ==
    \A r \in FlowRequests :
        /\ flow_pc[r] = "returned" <=> Len(flow_reply[r]) = 2
        /\ flow_pc[r] = "returned" => flow_reply[r][2] \in {200, 421, 427, 432, 500}
        /\ flow_pc[r] = "raised" =>
              \/ flow_reply[r] = <<"TypeError">> /\ BadResponseType(r)
              \/ flow_reply[r] = <<"KeyError">> /\ HealthCheckKeyMissing(r)
        /\ (Decrypted(r) /\ flow_pc[r] # "health_check" /\ HealthCheckKeyMissing(r)) =>
              flow_pc[r] = "raised"
        /\ (flow_pc[r] \notin {"callback", "respond"} /\ BadResponseType(r)) =>
              flow_pc[r] = "raised"
        /\ flow_pc[r] \notin {"idle", "returned", "raised"} =>
              ENABLED (FlowDecrypt(r) \/ FlowHealthCheck(r) \/ FlowParse(r)
                         \/ FlowCallback(r) \/ FlowRespond(r))

\* C13, witness: the callback returned None, nothing was to be acknowledged,
\* and the TypeError left the handler.
C13_Witness ==
    \E r \in FlowRequests :
        /\ flow_pc[r] = "raised" /\ flow_reply[r] = <<"TypeError">>
        /\ response[r].cls = "None"

\* C14: a FlowResponseError other than FlowTokenNoLongerValid, raised or
\* returned by the callback, is answered with the plaintext name of its class
\* and its status code; any other exception with the plaintext "An error
\* occurred" and 500; in both cases the response encryptor is not called.
C14_Theorem ==
    \A r \in FlowRequests :
        /\ CallbackGave(r, FlowResponseErrorClasses \ {"FlowTokenNoLongerValid"}) =>
              /\ flow_pc[r] = "returned"
              /\ flow_reply[r] = <<Plain(response[r].cls), response[r].status_code>>
              /\ "response_encryptor" \notin FlowCalled(r)
        /\ (Decrypted(r) /\ response[r].how = "raises"
              /\ response[r].cls \notin FlowResponseErrorClasses) =>
              /\ flow_pc[r] = "returned"
              /\ flow_reply[r] = <<Plain("An error occurred"), 500>>
              /\ "response_encryptor" \notin FlowCalled(r)

\* C14, witness: the callback returned a FlowResponseError object on an
\* endpoint that acknowledges errors, for a request that reports one, and
\* the reply is the plaintext class name.
C14_Witness ==
    \E r \in FlowRequests :
        /\ CallbackGave(r, {"FlowRequestSignatureAuthenticationFailed"})
        /\ response[r].how = "returns"
        /\ acknowledge_errors /\ payload[r].request.has_error
        /\ flow_reply[r] = <<Plain("FlowRequestSignatureAuthenticationFailed"), 432>>

\* the calls of the response encryptor made for the request
EncryptorCalls(r) ==
    { k \in 1..Len(flow_calls[r]) : flow_calls[r][k].fn = "response_encryptor" }

\* the key and IV the decryptor returned for the request
DecryptorReturned(r) == <<payload[r].key, payload[r].iv>>

\* C20: with requests running together in any interleaving, the response
\* encryptor is called at most once for a request, only after the decryptor
\* returned for that request and only with the key and IV it returned; an
\* encrypted reply is under the key and IV of its own request; a key is held
\* only by the call of the handler that decrypted it, and by none once the
\* handler has ended.
C20_Theorem ==
    \A r \in FlowRequests :
        /\ Cardinality(EncryptorCalls(r)) <= 1
        /\ \A k \in EncryptorCalls(r) :
              /\ Decrypted(r)
              /\ <<flow_calls[r][k].key, flow_calls[r][k].iv>> = DecryptorReturned(r)
        /\ (flow_pc[r] = "returned" /\ flow_reply[r][1].encrypted) =>
              <<flow_reply[r][1].key, flow_reply[r][1].iv>> = DecryptorReturned(r)
        /\ <<aes_key[r], iv[r]>> \in {<<"", "">>, DecryptorReturned(r)}
        /\ FlowEnded(r) => <<aes_key[r], iv[r]>> = <<"", "">>

\* C20, witness: a request was decrypted and is still in progress while
\* another request, under another key and another IV, has had its reply
\* encrypted.
C20_Witness ==
    \E r, q \in FlowRequests :
        /\ flow_pc[r] = "respond" /\ SessionKey(r) = DecryptorReturned(r)
        /\ flow_pc[q] = "returned" /\ flow_reply[q][1].encrypted
        /\ EncryptorCalls(q) # {}
        /\ payload[q].key # payload[r].key /\ payload[q].iv # payload[r].iv

(***************************************************************************)
(* Properties of the setup of the server, of the verification handshake    *)
(* and of the registration of the callback URL.                            *)
(***************************************************************************)
\* C15: a call of challenge_handler returns (challenge, 200) when the token
\* it received equals the configured verify token and
\* ("Error, invalid verification token", 403) when it does not, a request
\* without token included, and it changes nothing in the server, the
\* dispatch or the flow endpoint.
C15_Theorem ==
    [][challenge' # challenge =>
         /\ challenge'.reply =
               IF challenge'.vt = config.verify_token
               THEN <<challenge'.ch, 200>>
               ELSE <<"Error, invalid verification token", 403>>
         /\ UNCHANGED <<config, setup, routes, listening, registrations,
                        reg_pc, api_calls, flow_endpoint>>
         /\ UNCHANGED <<dispatch_vars, flow_vars>>]_vars

\* C15, witness: a request without hub.verify_token was answered 403.
C15_Witness ==
    /\ challenge.vt = None /\ challenge.ch = "abc123"
    /\ challenge.reply = <<"Error, invalid verification token", 403>>

\* C16, as claimed: at most one registration thread is started, and every
\* call of self.api it makes is made while the app is running.
C16_AsClaimed ==
    /\ registrations <= 1
    /\ \A k \in 1..Len(api_calls) : api_calls[k].listening

\* the calls of self.api that did not succeed
FailedApiCalls ==
    { k \in 1..Len(api_calls) : api_calls[k].outcome \notin {"returns", "success"} }

\* C17: the thread calls get_app_access_token first and set_app_callback_url
\* second, and nothing more; a call that fails is the last one, so
\* set_app_callback_url is not called after get_app_access_token failed; the
\* failure ends the thread with an exception and leaves the setup and the
\* routes as they are: a running app still answers the handshake and takes a
\* notification, an app not yet running can still be run.
C17_Theorem ==
    /\ Len(api_calls) <= 2
    /\ \A k \in 1..Len(api_calls) :
          api_calls[k].fn = IF k = 1 THEN "get_app_access_token"
                                     ELSE "set_app_callback_url"
    /\ \A k \in FailedApiCalls :
          /\ k = Len(api_calls)
          /\ reg_pc \in {"RuntimeError", "Exception"}
          /\ setup = "done"
          /\ WebhookRoutes \subseteq routes
          /\ listening =>
                /\ ENABLED ChallengeRequest("secret", "abc123")
                /\ \A t \in Deliveries :
                      ENABLED WebhookUpdateHandler(t, Upd("ok", "messages", "own",
                                                          "messages", "text", "absent"))
          /\ ~listening => ENABLED AppRun

\* C17, witness: get_app_access_token failed, set_app_callback_url was not
\* called, and the running app has answered a handshake.
C17_Witness ==
    /\ Len(api_calls) = 1 /\ api_calls[1].outcome = "WhatsAppError"
    /\ reg_pc = "RuntimeError"
    /\ listening /\ challenge.reply = <<"abc123", 200>>

\* the call of _register_flow_endpoint_callback lacks what the claim names:
\* the endpoint is the webhook endpoint, or a private key, a decryptor or an
\* encryptor is given neither to the call nor to the client
FlowEndpointMisconfigured ==
    \/ flow_endpoint.endpoint = WebhookEndpoint
    \/ flow_endpoint.private_key = None /\ config.business_private_key = None
    \/ flow_endpoint.request_decryptor = None /\ config.flows_request_decryptor = None
    \/ flow_endpoint.response_encryptor = None /\ config.flows_response_encryptor = None

\* C18: Server.__init__ called with a server and with a verify token that is
\* None or empty raises ValueError with no route registered and no
\* registration thread started; _register_flow_endpoint_callback called with
\* the webhook endpoint as endpoint, or without private key, decryptor or
\* encryptor, raises ValueError and registers no route.
C18_Theorem ==
    /\ (config.server \notin {"unset", None} /\ config.verify_token \in {None, ""}) =>
          /\ setup = "ValueError"
          /\ routes = {}
          /\ registrations = 0 /\ reg_pc = "not_started" /\ api_calls = <<>>
          /\ ~listening
    /\ (flow_endpoint # NoFlowEndpoint /\ FlowEndpointMisconfigured) =>
          /\ flow_endpoint.outcome = "ValueError"
          /\ routes \subseteq WebhookRoutes

\* C18, witness: a Flask app set up with an empty verify token, with
\* callback URL, app id and app secret given.
C18_Witness ==
    /\ config.server = "Flask" /\ config.verify_token = ""
    /\ config.callback_url # None /\ config.app_id # None /\ config.app_secret # None
    /\ setup = "ValueError" /\ routes = {}

(***************************************************************************)
(* Properties of the order of the two loops and of concurrent dispatches.  *)
(***************************************************************************)
\* the call a step of the dispatch adds to the calls of the delivery
NewCall(t) == calls'[t][Len(calls'[t])]

\* the loop over the handlers of the type is over before it made a call
\* (nothing to classify to, or the construction failed), or it made its calls
\* in registration order and the last one raised StopHandling or was that of
\* the last handler, and returned
CategoryLoopOver(t) ==
    LET cat == LoopCalls(t, "category") IN
        \/ handler_type[t] = None
        \/ ConstructionFailed(t)
        \/ /\ handler_type[t] \in HandlerTypes
           /\ InRegistrationOrder(cat)
           /\ \A k \in 1..Len(cat) : cat[k].result # "never_returns"
           /\ Stopped(cat) \/ Len(cat) = handlers[handler_type[t]]

\* C22: no step of a dispatch changes the registry of handlers; a call of a
\* handler of the type is made only while no raw handler has been called, and
\* a call of a raw handler only when the loop over the handlers of the type
\* is over: finished, stopped by StopHandling, or skipped.
C22_Theorem ==
    [][/\ handlers' = handlers
       /\ \A t \in Deliveries :
             calls'[t] # calls[t] =>
                /\ NewCall(t).loop = "category" => LoopCalls(t, "raw") = <<>>
                /\ NewCall(t).loop = "raw" => CategoryLoopOver(t)]_vars

\* C22, witness: a finished dispatch called two handlers of the type, the
\* first of which raised an error, and then two raw handlers.
C22_Witness ==
    \E t \in Deliveries :
        /\ pc[t] = "done" /\ Len(calls[t]) = 4
        /\ calls[t][1] = Call("category", 1, "raises")
        /\ calls[t][2].loop = "category"
        /\ calls[t][3].loop = "raw" /\ calls[t][4].loop = "raw"

\* what belongs to the dispatch of one delivery: the locals of its thread,
\* the calls it made and the reply to its request
DeliveryState(t) == <<pc[t], update[t], handler_type[t], idx[t], calls[t], reply[t]>>

\* the thread of the delivery can take its next step
DispatchStepEnabled(t) ==
    ENABLED (CallGetHandler(t) \/ ConstructUpdate(t) \/ CategoryHandle(t) \/ RawHandle(t))

\* the calls of the delivery are those its own notification and the outcomes
\* of its own calls lead to: it is classified by its own notification; each
\* loop called its handlers in registration order, none twice; a malformed
\* notification called nothing; a finished dispatch ran each loop it entered
\* to its end or to its own first StopHandling
OwnOutcome(t) ==
    LET cat == LoopCalls(t, "category")
        raw == LoopCalls(t, "raw")
        con == LoopCalls(t, "construct")
    IN  /\ Len(calls[t]) = Len(cat) + Len(raw) + Len(con)
        /\ Len(con) <= 1
        /\ InRegistrationOrder(cat) /\ InRegistrationOrder(raw)
        /\ StopsOnlyLast(cat) /\ StopsOnlyLast(raw)
        /\ Len(raw) <= handlers[RawUpdateHandler]
        /\ Classified(t) =>
              /\ handler_type[t] = GetHandler(update[t], filter_updates)
              /\ handler_type[t] \in Errors => (calls[t] = <<>> /\ pc[t] = "done")
              /\ handler_type[t] \notin HandlerTypes => cat = <<>>
              /\ handler_type[t] \in HandlerTypes =>
                    Len(cat) <= handlers[handler_type[t]]
        /\ (pc[t] = "done" /\ handler_type[t] \notin Errors) =>
              RanToFirstStop(raw, handlers[RawUpdateHandler])
        /\ (pc[t] = "done" /\ Dispatched(t)) =>
              RanToFirstStop(cat, handlers[handler_type[t]])

\* C21: with two dispatches running together, a step belongs to one of them
\* and changes neither what belongs to the other nor the registry; whatever
\* the other has done (returned on a malformed notification, failed to
\* construct, had a handler raise, stopped on StopHandling, or is blocked in
\* a handler), a dispatch that is under way can take its next step, and its
\* calls are those its own notification and its own handlers' outcomes lead
\* to, each handler called at most once.
C21_Theorem ==
    /\ [](\A t \in Deliveries :
            /\ OwnOutcome(t)
            /\ pc[t] \in {"get_handler", "construct", "category_loop", "raw_loop"} =>
                  DispatchStepEnabled(t))
    /\ [][/\ handlers' = handlers /\ filter_updates' = filter_updates
          /\ \A t, q \in Deliveries :
                (t # q /\ DeliveryState(t)' # DeliveryState(t)) =>
                    DeliveryState(q)' = DeliveryState(q)]_vars

\* C21, witness: of two dispatches of a text message, one ended at the
\* StopHandling of its first handler of the type and of its first raw
\* handler, the other is blocked in its second raw handler after calling
\* both handlers of the type, the first of which raised an error.
C21_Witness ==
    \E t, q \in Deliveries :
        /\ t # q
        /\ update[t] = update[q] /\ update[t].msg_type = "text"
        /\ pc[t] = "done"
        /\ calls[t] = <<Call("category", 1, "StopHandling"), Call("raw", 1, "StopHandling")>>
        /\ pc[q] = "blocked"
        /\ calls[q] = <<Call("category", 1, "raises"), Call("category", 2, "returns"),
                        Call("raw", 1, "returns"), Call("raw", 2, "never_returns")>>

====
